---- MODULE Spec2Model ----
(***************************************************************************)
(* A model of the FUGW sparse barycenter fitter                            *)
(* (src/src/fugw/mappings/sparse_barycenter.py) and of the unbalanced-OT   *)
(* solvers solver_scaling, solver_mm and solver_dc                         *)
(* (src/src/fugw/solvers/utils.py).                                        *)
(*                                                                         *)
(* Three specifications share the module:                                  *)
(*   SpecFeat   update_barycenter_features on plans and features drawn     *)
(*              from bounded sets, one individual of its loop per step;    *)
(*   SpecFit    FUGWSparseBarycenter.fit, one step per solve and per       *)
(*              statement of the round's tail;                             *)
(*   SpecSolver the three solvers on 1x1 problems in a small floating      *)
(*              point format, one step per loop iteration.                 *)
(***************************************************************************)
EXTENDS Integers, Sequences, FiniteSets, TLC

VARIABLES
    \* ---- update_barycenter_features (SpecFeat) ----
    f_pc,          \* "loop" | "normalize" | "done" | "off"
    f_N,           \* len(features_list)
    f_B,           \* number of barycenter points (columns of every plan)
    f_i,           \* loop index i of enumerate(zip(plans, features_list))
    f_acc,         \* barycenter_features before normalisation, one value per point
    f_out,         \* the returned feature row, <<>> before the return
    \* ---- FUGWSparseBarycenter.fit (SpecFit) ----
    pc,                    \* position in fit
    weights_list,          \* its length is the number of individuals
    nits_barycenter,       \* number of rounds
    barycenter_size,
    init_barycenter_weights,   \* None or Some(vector)
    callback_barycenter,   \* TRUE when a callback is registered
    barycenter_weights,
    barycenter_features,
    plans,                 \* None or Some(list of plans)
    sparsity_mask,         \* None or Some(mask)
    losses,                \* the losses of the round just computed
    losses_each_bar_step,
    idx,                   \* round counter of the for loop
    i,                     \* loop index inside compute_all_ot_plans
    new_plans,             \* compute_all_ot_plans: new_plans
    new_losses,            \* compute_all_ot_plans: new_losses
    c_mask,                \* compute_all_ot_plans: its local sparsity_mask
    result,                \* None or Some(returned tuple)
    calls,                 \* history: the arguments of every coarse_to_fine.fit call
    cb_log,                \* history: what each callback invocation saw
    \* ---- solver_scaling, solver_mm, solver_dc on a 1x1 problem (SpecSolver) ----
    s_pc,          \* "loop" | "break" | "done" | "raised"
    s_args,        \* the arguments of the call
    s_idx,         \* idx of the for loop
    s_vx, s_vy,    \* solver_scaling: vx, vy
    s_u, s_v,      \* solver_dc: u, v
    s_pi,          \* solver_mm, solver_dc: pi
    s_pi1, s_pi2,  \* solver_mm: pi1, pi2
    s_m1,          \* solver_dc: m1
    s_ret,         \* None or Some(returned value)
    s_phase,       \* 1: a first call; 2: the call repeated from its own output
    s_first,       \* the value the first call returned (phase 2)
    s_trace        \* history: one record per executed iteration

featVars == <<f_pc, f_N, f_B, f_i, f_acc, f_out>>

fitVars == <<pc, weights_list, nits_barycenter, barycenter_size,
             init_barycenter_weights, callback_barycenter, barycenter_weights,
             barycenter_features, plans, sparsity_mask, losses,
             losses_each_bar_step, idx, i, new_plans, new_losses, c_mask,
             result, calls, cb_log>>

solVars == <<s_pc, s_args, s_idx, s_vx, s_vy, s_u, s_v, s_pi, s_pi1, s_pi2,
             s_m1, s_ret, s_phase, s_first, s_trace>>

vars == <<featVars, fitVars, solVars>>

(***************************************************************************)
(* Bounds of the model.                                                    *)
(***************************************************************************)
MaxIndividuals == 2      \* individuals N ranges over 1..MaxIndividuals
MaxBarySize    == 2      \* barycenter_size ranges over 1..MaxBarySize
MaxFeature     == 1      \* feature values range over -1..MaxFeature
MaxRounds      == 2      \* nits_barycenter ranges over 0..MaxRounds
MaxIters       == 4      \* niters ranges over 0..MaxIters
MaxEvalFreq    == 2      \* eval_freq ranges over 1..MaxEvalFreq
MaxFloat       == 16     \* largest magnitude of the solvers' number format

\* Number of points of individual k (0-based): the individuals differ in size.
PointsOf(k) == 1 + (k % 2)

(***************************************************************************)
(* Numbers.  A tensor entry is a pair <<n, d>>: the rational n/d in lowest *)
(* terms when d > 0, NaN when it is <<0, 0>>, +Inf or -Inf when it is    *)
(* <<1, 0>> or <<-1, 0>>.                                                  *)
(***************************************************************************)
NaN  == <<0, 0>>
PInf == <<1, 0>>

IsNaN(x)    == x = NaN
IsInf(x)    == x[2] = 0 /\ x[1] # 0
IsFinite(x) == x[2] > 0

Sgn(n) == IF n < 0 THEN -1 ELSE IF n > 0 THEN 1 ELSE 0

Abs(n) == IF n < 0 THEN -n ELSE n

RECURSIVE Gcd(_, _)
Gcd(a, b) == IF b = 0 THEN a ELSE Gcd(b, a % b)

Rat(n, d) ==
    LET g == Gcd(Abs(n), d)
    IN  IF g = 0 THEN <<0, 1>> ELSE <<n \div g, d \div g>>

Int2Rat(n) == <<n, 1>>

\* Once1 and Once2 apply F to the value of the arguments, each argument
\* evaluated a single time.
Once1(F(_), x) == CHOOSE r \in {F(v) : v \in {x}} : TRUE
Once2(F(_, _), x, y) == CHOOSE r \in {F(p[1], p[2]) : p \in {<<x, y>>}} : TRUE

\* IEEE-754 arithmetic on these values: NaN is absorbing, Inf - Inf, 0 * Inf,
\* 0 / 0 and Inf / Inf are NaN, a finite value over Inf is 0.
RNeg(x) == Once1(LAMBDA a : IF IsNaN(a) THEN NaN ELSE <<-a[1], a[2]>>, x)

RAdd(x, y) ==
    Once2(LAMBDA a, b :
            IF IsNaN(a) \/ IsNaN(b) THEN NaN
            ELSE IF IsInf(a) /\ IsInf(b) THEN (IF a = b THEN a ELSE NaN)
            ELSE IF IsInf(a) THEN a
            ELSE IF IsInf(b) THEN b
            ELSE Rat(a[1] * b[2] + b[1] * a[2], a[2] * b[2]),
          x, y)

RSub(x, y) == RAdd(x, RNeg(y))

RMul(x, y) ==
    Once2(LAMBDA a, b :
            IF IsNaN(a) \/ IsNaN(b) THEN NaN
            ELSE IF IsInf(a) \/ IsInf(b)
                 THEN IF a[1] = 0 \/ b[1] = 0 THEN NaN
                      ELSE <<Sgn(a[1]) * Sgn(b[1]), 0>>
            ELSE Rat(a[1] * b[1], a[2] * b[2]),
          x, y)

RDiv(x, y) ==
    Once2(LAMBDA a, b :
            IF IsNaN(a) \/ IsNaN(b) THEN NaN
            ELSE IF IsInf(a) THEN (IF IsInf(b) THEN NaN
                                   ELSE IF b[1] < 0 THEN RNeg(a) ELSE a)
            ELSE IF IsInf(b) THEN <<0, 1>>
            ELSE IF b[1] = 0 THEN (IF a[1] = 0 THEN NaN ELSE <<Sgn(a[1]), 0>>)
            ELSE IF b[1] < 0 THEN Rat(-(a[1] * b[2]), a[2] * (-b[1]))
            ELSE Rat(a[1] * b[2], a[2] * b[1]),
          x, y)

\* x <= y on values that are not NaN (at most one of them infinite).
RLeq(x, y) == Once2(LAMBDA a, b : a[1] * b[2] <= b[1] * a[2], x, y)

(***************************************************************************)
(* update_barycenter_features.  A plan pi is a sequence of rows, pi[s][b]  *)
(* the mass between point s of the individual and barycenter point b;      *)
(* features f is one feature dimension, f[s] the value at point s.  The    *)
(* code treats the feature dimensions independently (every reduction is    *)
(* over dim=0, the barycenter points), so one dimension is followed.       *)
(***************************************************************************)
RECURSIVE SumTo(_, _)
\* sum of term[1..n]
SumTo(term, n) ==
    Once1(LAMBDA t : IF n = 0 THEN <<0, 1>> ELSE RAdd(SumTo(t, n - 1), t[n]), term)

\* torch.sparse.sum(pi, dim=0)[b] + 1e-16: the floor is absorbed by rounding
\* into any sum >= 1 and is all that is left of a zero sum.
PiSum(pi, b) ==
    Once1(LAMBDA col : IF col = <<0, 1>> THEN <<1, 10000>> ELSE col,
          SumTo([s \in 1..Len(pi) |-> pi[s][b]], Len(pi)))

\* acc = weight * pi.T @ f.T / pi_sum, with weight = 1 / len(features_list)
AccOf(pi, f, N, B) ==
    Once2(LAMBDA p, g :
            [b \in 1..B |->
                RDiv(SumTo([s \in 1..Len(p) |-> RMul(RMul(Rat(1, N), p[s][b]), g[s])],
                           Len(p)),
                     PiSum(p, b))],
          pi, f)

\* barycenter_features = acc (i == 0) or barycenter_features += acc
Accumulate(k, bf, acc, B) ==
    IF k = 0 THEN acc
    ELSE Once2(LAMBDA x, y : [b \in 1..B |-> RAdd(x[b], y[b])], bf, acc)

RECURSIVE MinOver(_, _)
\* tensor.min(dim=0): NaN if any entry is NaN
MinOver(v, n) ==
    IF n = 1 THEN v[1]
    ELSE Once2(LAMBDA m, x : IF IsNaN(m) \/ IsNaN(x) THEN NaN
                             ELSE IF RLeq(m, x) THEN m ELSE x,
               MinOver(v, n - 1), v[n])

RECURSIVE MaxOver(_, _)
\* tensor.max(dim=0): NaN if any entry is NaN
MaxOver(v, n) ==
    IF n = 1 THEN v[1]
    ELSE Once2(LAMBDA m, x : IF IsNaN(m) \/ IsNaN(x) THEN NaN
                             ELSE IF RLeq(x, m) THEN m ELSE x,
               MaxOver(v, n - 1), v[n])

\* the rescaling of one value given the column's minimum and maximum
Rescale(x, min_val, max_val) ==
    RSub(RDiv(RMul(<<2, 1>>, RSub(x, min_val)), RSub(max_val, min_val)), <<1, 1>>)

\* A plausible slip: the shift by one forgotten.
Normalize_noshift(bf, B) ==
    Once1(LAMBDA v :
            Once2(LAMBDA min_val, max_val :
                    [b \in 1..B |->
                        RDiv(RMul(<<2, 1>>, RSub(v[b], min_val)),
                             RSub(max_val, min_val))],
                  MinOver(v, B), MaxOver(v, B)),
          bf)

\* 2 * (barycenter_features - min_val) / (max_val - min_val) - 1
Normalize(bf, B) ==
    Once1(LAMBDA v :
            Once2(LAMBDA min_val, max_val :
                    [b \in 1..B |-> Rescale(v[b], min_val, max_val)],
                  MinOver(v, B), MaxOver(v, B)),
          bf)

RECURSIVE FoldAcc(_, _, _, _)
\* the accumulation loop over the first k individuals (ps: plans, fs: features_list)
FoldAcc(ps, fs, k, B) ==
    IF k = 1 THEN AccOf(ps[1], fs[1], Len(fs), B)
    ELSE Accumulate(k - 1, FoldAcc(ps, fs, k - 1, B),
                    AccOf(ps[k], fs[k], Len(fs), B), B)

UpdateBarycenterFeatures(ps, fs, B) ==
    Once2(LAMBDA p, g : Normalize(FoldAcc(p, g, Len(g), B), B), ps, fs)

(***************************************************************************)
(* Python's None and a present value.                                      *)
(***************************************************************************)
None    == <<>>
Some(x) == <<x>>

\* The variables of a part of the module that a specification does not run.
FeatOff ==
    /\ f_pc = "off" /\ f_N = 0 /\ f_B = 0 /\ f_i = 0
    /\ f_acc = <<>> /\ f_out = <<>>

FitOff ==
    /\ pc = "off" /\ weights_list = <<>> /\ nits_barycenter = 0
    /\ barycenter_size = 0 /\ init_barycenter_weights = None
    /\ callback_barycenter = FALSE /\ barycenter_weights = <<>>
    /\ barycenter_features = <<>> /\ plans = None /\ sparsity_mask = None
    /\ losses = <<>> /\ losses_each_bar_step = <<>> /\ idx = 0 /\ i = 0
    /\ new_plans = <<>> /\ new_losses = <<>> /\ c_mask = None
    /\ result = None /\ calls = <<>> /\ cb_log = <<>>

SolverOff ==
    /\ s_pc = "off" /\ s_args = <<>> /\ s_idx = 0 /\ s_vx = <<0, 1>>
    /\ s_vy = <<0, 1>> /\ s_u = <<0, 1>> /\ s_v = <<0, 1>> /\ s_pi = <<0, 1>>
    /\ s_pi1 = <<0, 1>> /\ s_pi2 = <<0, 1>> /\ s_m1 = <<0, 1>> /\ s_ret = None
    /\ s_phase = 0 /\ s_first = None /\ s_trace = <<>>

(***************************************************************************)
(* Inputs of update_barycenter_features.                                   *)
(***************************************************************************)
\* Entries of a plan the fitter can hand over: nonnegative masses and, since
\* only NaN is screened by compute_all_ot_plans, +Inf.
PlanEntries == {<<0, 1>>, <<1, 1>>, PInf}

PlanSet(n, B) == [1..n -> [1..B -> PlanEntries]]

FeatureValues == {Int2Rat(x) : x \in {-1, 0, MaxFeature}}

FeatureSet(n) == [1..n -> FeatureValues]

FeatInit ==
    /\ FitOff
    /\ SolverOff
    /\ f_pc = "loop"
    /\ f_N \in 1..MaxIndividuals
    /\ f_B \in 1..MaxBarySize
    /\ f_i = 0
    /\ f_acc = <<>>
    /\ f_out = <<>>

\* one iteration of the loop over enumerate(zip(plans, features_list))
FeatLoop ==
    /\ f_pc = "loop"
    /\ f_i < f_N
    /\ \E pi \in PlanSet(PointsOf(f_i), f_B), f \in FeatureSet(PointsOf(f_i)) :
          f_acc' = Accumulate(f_i, f_acc, AccOf(pi, f, f_N, f_B), f_B)
    /\ f_i' = f_i + 1
    /\ f_pc' = IF f_i + 1 = f_N THEN "normalize" ELSE "loop"
    /\ UNCHANGED <<f_N, f_B, f_out, fitVars, solVars>>

\* the min-max normalisation and the return
FeatNormalize ==
    /\ f_pc = "normalize"
    /\ f_out' = Normalize(f_acc, f_B)
    /\ f_pc' = "done"
    /\ UNCHANGED <<f_N, f_B, f_i, f_acc, fitVars, solVars>>

NextFeat == FeatLoop \/ FeatNormalize

SpecFeat == FeatInit /\ [][NextFeat]_vars

(***************************************************************************)
(* FUGWSparseBarycenter.fit.                                               *)
(*                                                                         *)
(* coarse_to_fine.fit, FUGW and FUGWSparse are collaborators outside the   *)
(* repository part under study: a solve hands back a fine plan drawn from  *)
(* FinePlans, the loss triple of that solve and a sparsity mask.  Plans,   *)
(* losses and masks carry the round and the individual of the solve that   *)
(* produced them.                                                          *)
(***************************************************************************)
NumIndividuals == Len(weights_list)

\* weights of individual k (0-based): uniform over its points
WeightsOf(k) == [s \in 1..PointsOf(k) |-> Rat(1, PointsOf(k))]

\* one feature dimension of individual k (0-based)
FeaturesOf(k) == [s \in 1..PointsOf(k) |-> Int2Rat(s + k)]

features_list == [k \in 1..NumIndividuals |-> FeaturesOf(k - 1)]

\* torch.ones(barycenter_size) / barycenter_size
UniformWeights(B) == [b \in 1..B |-> Rat(1, B)]

\* a weight vector a caller may supply: mass proportional to the point's rank
SuppliedWeights(B) == [b \in 1..B |-> Rat(2 * b, B * (B + 1))]

\* ones((n_features, barycenter_size)) divided by the row norm sqrt(B): the
\* value 1/sqrt(B) is written <<1, -B>> when it is irrational.  It is only
\* handed to the solves of round 0, never computed with.
UnitNormRow(B) == [b \in 1..B |-> IF B = 1 THEN <<1, 1>> ELSE <<1, -B>>]

\* The fine plans a solve may produce for an individual with n points.
SpreadPlan(n, B) == [s \in 1..n |-> [b \in 1..B |-> IF b <= s THEN <<1, 1>> ELSE <<0, 1>>]]
PlanWith(n, B, x) == [s \in 1..n |-> [b \in 1..B |-> IF s = 1 /\ b = 1 THEN x ELSE <<1, 1>>]]
FinePlans(n, B) ==
    {SpreadPlan(n, B), PlanWith(n, B, NaN), PlanWith(n, B, PInf)}

\* A plausible slip: .all() in place of .any().
HasNaN_all(pi) == \A s \in 1..Len(pi) : \A b \in 1..Len(pi[s]) : IsNaN(pi[s][b])

\* torch.isnan(pi.values()).any()
HasNaN(pi) == \E s \in 1..Len(pi) : \E b \in 1..Len(pi[s]) : IsNaN(pi[s][b])
HasInf(pi) == \E s \in 1..Len(pi) : \E b \in 1..Len(pi[s]) : IsInf(pi[s][b])

FitInit ==
    /\ FeatOff
    /\ SolverOff
    /\ pc = "init"
    /\ weights_list \in {[k \in 1..n |-> WeightsOf(k - 1)] : n \in 1..MaxIndividuals}
    /\ nits_barycenter \in 0..MaxRounds
    /\ barycenter_size \in 1..MaxBarySize
    /\ init_barycenter_weights \in {None, Some(SuppliedWeights(barycenter_size))}
    /\ callback_barycenter \in BOOLEAN
    /\ barycenter_weights = <<>>
    /\ barycenter_features = <<>>
    /\ plans = None
    /\ sparsity_mask = None
    /\ losses = <<>>
    /\ losses_each_bar_step = <<>>
    /\ idx = 0
    /\ i = 0
    /\ new_plans = <<>>
    /\ new_losses = <<>>
    /\ c_mask = None
    /\ result = None
    /\ calls = <<>>
    /\ cb_log = <<>>

\* the initialisation of the barycenter and of the loop state
FitInitialize ==
    /\ pc = "init"
    /\ barycenter_weights' =
          IF init_barycenter_weights = None
          THEN UniformWeights(barycenter_size)
          ELSE init_barycenter_weights[1]
    /\ barycenter_features' = UnitNormRow(barycenter_size)
    /\ plans' = None
    /\ sparsity_mask' = None
    /\ losses_each_bar_step' = <<>>
    /\ idx' = 0
    /\ pc' = "loop"
    /\ UNCHANGED <<weights_list, nits_barycenter, barycenter_size,
                   init_barycenter_weights, callback_barycenter, losses, i,
                   new_plans, new_losses, c_mask, result, calls, cb_log, featVars, solVars>>

\* for idx in range(nits_barycenter): the call of compute_all_ot_plans
RoundStart ==
    /\ pc = "loop"
    /\ idx < nits_barycenter
    /\ new_plans' = <<>>
    /\ new_losses' = <<>>
    /\ c_mask' = sparsity_mask
    /\ i' = 0
    /\ pc' = "solve"
    /\ UNCHANGED <<weights_list, nits_barycenter, barycenter_size,
                   init_barycenter_weights, callback_barycenter,
                   barycenter_weights, barycenter_features, plans,
                   sparsity_mask, losses, losses_each_bar_step, idx, result,
                   calls, cb_log, featVars, solVars>>

\* one iteration of the loop over the individuals in compute_all_ot_plans
Solve ==
    /\ pc = "solve"
    /\ i < NumIndividuals
    /\ \E pi \in FinePlans(PointsOf(i), barycenter_size) :
          LET call == [round |-> idx, ind |-> i,
                       features |-> features_list[i + 1],
                       weights |-> weights_list[i + 1],
                       barycenter_features |-> barycenter_features,
                       barycenter_weights |-> barycenter_weights,
                       init_plan |-> IF plans # None THEN Some(plans[1][i + 1])
                                     ELSE None,
                       sparsity_mask |-> c_mask,
                       pi |-> pi]
          IN  /\ calls' = Append(calls, call)
              /\ c_mask' = Some([round |-> idx, ind |-> i])
              /\ IF HasNaN(pi)
                 THEN /\ pc' = "failed"
                      /\ UNCHANGED <<new_plans, new_losses, i>>
                 ELSE /\ new_plans' = Append(new_plans,
                                             [round |-> idx, ind |-> i, pi |-> pi])
                      /\ new_losses' = Append(new_losses, [round |-> idx, ind |-> i])
                      /\ i' = i + 1
                      /\ pc' = "solve"
    /\ UNCHANGED <<weights_list, nits_barycenter, barycenter_size,
                   init_barycenter_weights, callback_barycenter,
                   barycenter_weights, barycenter_features, plans,
                   sparsity_mask, losses, losses_each_bar_step, idx, result,
                   cb_log, featVars, solVars>>

\* return new_plans, new_losses, sparsity_mask and the assignment in fit
ComputeReturn ==
    /\ pc = "solve"
    /\ i = NumIndividuals
    /\ plans' = Some(new_plans)
    /\ losses' = new_losses
    /\ sparsity_mask' = c_mask
    /\ pc' = "append"
    /\ UNCHANGED <<weights_list, nits_barycenter, barycenter_size,
                   init_barycenter_weights, callback_barycenter,
                   barycenter_weights, barycenter_features,
                   losses_each_bar_step, idx, i, new_plans, new_losses, c_mask,
                   result, calls, cb_log, featVars, solVars>>

\* A plausible slip: the history rebuilt from the current round alone.
AppendLosses_overwrite ==
    /\ pc = "append"
    /\ losses_each_bar_step' = <<losses>>
    /\ pc' = "update"
    /\ UNCHANGED <<weights_list, nits_barycenter, barycenter_size,
                   init_barycenter_weights, callback_barycenter,
                   barycenter_weights, barycenter_features, plans,
                   sparsity_mask, losses, idx, i, new_plans, new_losses,
                   c_mask, result, calls, cb_log, featVars, solVars>>

\* losses_each_bar_step.append(losses)
AppendLosses ==
    /\ pc = "append"
    /\ losses_each_bar_step' = Append(losses_each_bar_step, losses)
    /\ pc' = "update"
    /\ UNCHANGED <<weights_list, nits_barycenter, barycenter_size,
                   init_barycenter_weights, callback_barycenter,
                   barycenter_weights, barycenter_features, plans,
                   sparsity_mask, losses, idx, i, new_plans, new_losses,
                   c_mask, result, calls, cb_log, featVars, solVars>>

PlanMatrices == [k \in 1..Len(plans[1]) |-> plans[1][k].pi]

\* A plausible slip: the weights re-estimated along with the features.
UpdateFeatures_reweigh ==
    /\ pc = "update"
    /\ barycenter_features' =
          UpdateBarycenterFeatures(PlanMatrices, features_list, barycenter_size)
    /\ barycenter_weights' = UniformWeights(barycenter_size)
    /\ pc' = "callback"
    /\ UNCHANGED <<weights_list, nits_barycenter, barycenter_size,
                   init_barycenter_weights, callback_barycenter,
                   plans, sparsity_mask, losses,
                   losses_each_bar_step, idx, i, new_plans, new_losses, c_mask,
                   result, calls, cb_log, featVars, solVars>>

\* barycenter_features = self.update_barycenter_features(plans, features_list, device)
UpdateFeatures ==
    /\ pc = "update"
    /\ barycenter_features' =
          UpdateBarycenterFeatures(PlanMatrices, features_list, barycenter_size)
    /\ pc' = "callback"
    /\ UNCHANGED <<weights_list, nits_barycenter, barycenter_size,
                   init_barycenter_weights, callback_barycenter,
                   barycenter_weights, plans, sparsity_mask, losses,
                   losses_each_bar_step, idx, i, new_plans, new_losses, c_mask,
                   result, calls, cb_log, featVars, solVars>>

\* what callback_barycenter(locals()) is handed
Locals ==
    [idx |-> idx, plans |-> plans, losses |-> losses,
     losses_each_bar_step |-> losses_each_bar_step,
     barycenter_features |-> barycenter_features,
     barycenter_weights |-> barycenter_weights,
     sparsity_mask |-> sparsity_mask,
     solves |-> Len(calls)]

\* A plausible slip: the callback tested together with the truthiness of idx.
Callback_skipfirst ==
    /\ pc = "callback"
    /\ cb_log' = IF callback_barycenter /\ idx # 0 THEN Append(cb_log, Locals)
                 ELSE cb_log
    /\ idx' = idx + 1
    /\ pc' = "loop"
    /\ UNCHANGED <<weights_list, nits_barycenter, barycenter_size,
                   init_barycenter_weights, callback_barycenter,
                   barycenter_weights, barycenter_features, plans,
                   sparsity_mask, losses, losses_each_bar_step, i, new_plans,
                   new_losses, c_mask, result, calls, featVars, solVars>>

\* if callback_barycenter is not None: callback_barycenter(locals()); next round
Callback ==
    /\ pc = "callback"
    /\ cb_log' = IF callback_barycenter THEN Append(cb_log, Locals) ELSE cb_log
    /\ idx' = idx + 1
    /\ pc' = "loop"
    /\ UNCHANGED <<weights_list, nits_barycenter, barycenter_size,
                   init_barycenter_weights, callback_barycenter,
                   barycenter_weights, barycenter_features, plans,
                   sparsity_mask, losses, losses_each_bar_step, i, new_plans,
                   new_losses, c_mask, result, calls, featVars, solVars>>

\* return (barycenter_weights, barycenter_features, plans, losses_each_bar_step)
FitReturn ==
    /\ pc = "loop"
    /\ idx >= nits_barycenter
    /\ result' = Some([barycenter_weights |-> barycenter_weights,
                       barycenter_features |-> barycenter_features,
                       plans |-> plans,
                       losses_each_bar_step |-> losses_each_bar_step])
    /\ pc' = "done"
    /\ UNCHANGED <<weights_list, nits_barycenter, barycenter_size,
                   init_barycenter_weights, callback_barycenter,
                   barycenter_weights, barycenter_features, plans,
                   sparsity_mask, losses, losses_each_bar_step, idx, i,
                   new_plans, new_losses, c_mask, calls, cb_log, featVars, solVars>>

NextFit ==
    \/ FitInitialize
    \/ RoundStart
    \/ Solve
    \/ ComputeReturn
    \/ AppendLosses
    \/ UpdateFeatures
    \/ Callback
    \/ FitReturn

SpecFit == FitInit /\ [][NextFit]_vars

\* The scheduler keeps running the call until it returns or raises.
SpecFitFair == SpecFit /\ WF_vars(NextFit)

(***************************************************************************)
(* Properties of update_barycenter_features (checked under SpecFeat).      *)
(***************************************************************************)
FeatMinAt(b) == \A c \in 1..f_B : RLeq(f_acc[b], f_acc[c])
FeatMaxAt(b) == \A c \in 1..f_B : RLeq(f_acc[c], f_acc[b])
FeatAllFinite == \A b \in 1..f_B : IsFinite(f_acc[b])
FeatSpread == \E b, c \in 1..f_B : f_acc[b] # f_acc[c]

\* every returned value lies in [-1, 1], the smallest aggregated value is sent
\* to -1 and the largest to +1
FeatInRange ==
    \A b \in 1..f_B :
        /\ IsFinite(f_out[b])
        /\ RLeq(<<-1, 1>>, f_out[b]) /\ RLeq(f_out[b], <<1, 1>>)
        /\ (FeatAllFinite /\ FeatMinAt(b)) => f_out[b] = <<-1, 1>>
        /\ (FeatAllFinite /\ FeatMaxAt(b)) => f_out[b] = <<1, 1>>

\* C7 as stated: for every plans and features the fitter can pass in,
\* including equal aggregated values and a single barycenter point, the
\* returned values lie in [-1, 1] with the extremes at exactly -1 and +1.
C7_AlwaysInRange == f_pc = "done" => FeatInRange

\* C7 amended: where the aggregated values of the dimension are finite and
\* not all equal the returned values lie in [-1, 1] with the smallest at
\* exactly -1 and the largest at exactly +1; where they are all equal (a
\* single barycenter point included) or one of them is NaN, every returned
\* value of the dimension is NaN.
C7_InRangeWhenSpread ==
    f_pc = "done" =>
        IF FeatAllFinite /\ FeatSpread
        THEN FeatInRange
        ELSE \A b \in 1..f_B : IsNaN(f_out[b])

\* a run with two individuals whose aggregated values are finite and differ
C7_Witness ==
    /\ f_pc = "done" /\ f_N >= 2 /\ f_B >= 2
    /\ FeatAllFinite /\ FeatSpread
    /\ \E b \in 1..f_B : f_out[b] = <<1, 1>>

(***************************************************************************)
(* Properties of fit (checked under SpecFit or SpecFitFair).               *)
(***************************************************************************)
EntryIsNaN(x) == x[1] = 0 /\ x[2] = 0
EntryIsInf(x) == x[1] # 0 /\ x[2] = 0
PlanHasNaN(pi) == \E s \in DOMAIN pi : \E b \in DOMAIN pi[s] : EntryIsNaN(pi[s][b])
PlanHasInf(pi) == \E s \in DOMAIN pi : \E b \in DOMAIN pi[s] : EntryIsInf(pi[s][b])

Terminated == pc \in {"done", "failed"}

C1_Shape ==
    /\ Len(losses_each_bar_step) <= nits_barycenter
    /\ \A r \in 1..Len(losses_each_bar_step) :
          /\ Len(losses_each_bar_step[r]) = NumIndividuals
          /\ \A k \in 1..NumIndividuals :
                losses_each_bar_step[r][k] = [round |-> r - 1, ind |-> k - 1]
    /\ pc = "done" =>
          /\ idx = nits_barycenter
          /\ Len(calls) = nits_barycenter * NumIndividuals
          /\ Len(result[1].losses_each_bar_step) = nits_barycenter
          /\ result[1].losses_each_bar_step = losses_each_bar_step
    /\ ~Terminated => ENABLED NextFit

C1_Kept ==
    /\ Len(losses_each_bar_step') >= Len(losses_each_bar_step)
    /\ \A r \in 1..Len(losses_each_bar_step) :
          losses_each_bar_step'[r] = losses_each_bar_step[r]

\* C1: a fit in which no solve fails runs exactly nits_barycenter rounds and
\* returns a loss history with one entry per round, in round order, each with
\* one record per individual, in individual order; an appended entry is never
\* changed afterwards; every call ends.
C1_LossHistory ==
    /\ []C1_Shape
    /\ [][pc # "init" => C1_Kept]_vars
    /\ <>Terminated

C1_Witness ==
    /\ pc = "done"
    /\ nits_barycenter = MaxRounds
    /\ NumIndividuals >= 2
    /\ Len(result[1].losses_each_bar_step) = MaxRounds

\* what C2 says holds once the plan of the k-th solve is rejected
RejectedAt(k) ==
    /\ pc = "failed"
    /\ k = Len(calls)
    /\ result = None
    /\ Len(losses_each_bar_step) = calls[k].round
    /\ barycenter_features = calls[k].barycenter_features
    /\ Len(cb_log) = IF callback_barycenter THEN calls[k].round ELSE 0

ReturnedPlans == IF result[1].plans = None THEN <<>> ELSE result[1].plans[1]

\* C2 as stated: a fine plan with a NaN or an infinite entry makes the call
\* fail right after it is obtained, and no returned plan has such an entry.
C2_NaNOrInfRejected ==
    /\ \A k \in 1..Len(calls) :
          (PlanHasNaN(calls[k].pi) \/ PlanHasInf(calls[k].pi)) => RejectedAt(k)
    /\ pc = "done" =>
          \A k \in 1..Len(ReturnedPlans) :
              ~PlanHasNaN(ReturnedPlans[k].pi) /\ ~PlanHasInf(ReturnedPlans[k].pi)

\* C2 amended: a fine plan with a NaN entry makes the call fail right after it
\* is obtained: no later individual is solved, the round's losses are not
\* appended, the features are not updated, the callback is not invoked for
\* the round and nothing is returned; fit never returns a plan with a NaN
\* entry, and it fails in no other way.
C2_NaNRejected ==
    /\ \A k \in 1..Len(calls) : PlanHasNaN(calls[k].pi) => RejectedAt(k)
    /\ pc = "failed" => PlanHasNaN(calls[Len(calls)].pi)
    /\ pc = "done" =>
          \A k \in 1..Len(ReturnedPlans) : ~PlanHasNaN(ReturnedPlans[k].pi)

\* a failure in a later round with an individual left unsolved
C2_Witness ==
    /\ pc = "failed"
    /\ calls[Len(calls)].round >= 1
    /\ calls[Len(calls)].ind + 1 < NumIndividuals
    /\ callback_barycenter

\* the plan and the mask that the solve of round r for individual k produced
ProducedPlan(r, k) ==
    LET c == CHOOSE c \in 1..Len(calls) : calls[c].round = r /\ calls[c].ind = k
    IN  [round |-> r, ind |-> k, pi |-> calls[c].pi]
ProducedMask(r, k) == [round |-> r, ind |-> k]

\* C4: in round 0 every solve receives no initial plan and no sparsity mask;
\* in round r >= 1 the solve for individual i receives the plan and the mask
\* produced for individual i in round r - 1.
C4_WarmStart ==
    \A c \in 1..Len(calls) :
        IF calls[c].round = 0
        THEN calls[c].init_plan = None /\ calls[c].sparsity_mask = None
        ELSE /\ calls[c].init_plan =
                   Some(ProducedPlan(calls[c].round - 1, calls[c].ind))
             /\ calls[c].sparsity_mask =
                   Some(ProducedMask(calls[c].round - 1, calls[c].ind))

\* C5: no input of the solve for individual i comes from the solve of another
\* individual in the same round.
C5_NoDependency ==
    \A c \in 1..Len(calls) : \A k \in 0..(NumIndividuals - 1) :
        k # calls[c].ind =>
            /\ calls[c].sparsity_mask # Some(ProducedMask(calls[c].round, k))
            /\ \A d \in 1..Len(calls) :
                  (calls[d].round = calls[c].round /\ calls[d].ind = k) =>
                      /\ calls[c].init_plan # Some(ProducedPlan(calls[d].round, k))
                      /\ calls[c].barycenter_features = calls[d].barycenter_features
                      /\ calls[c].barycenter_weights = calls[d].barycenter_weights

InitialWeights ==
    IF init_barycenter_weights = None
    THEN [b \in 1..barycenter_size |-> <<1, barycenter_size>>]
    ELSE init_barycenter_weights[1]

\* 1/B in lowest terms is <<1, B>>.
C6_Fixed ==
    pc # "init" =>
        /\ barycenter_weights = InitialWeights
        /\ \A c \in 1..Len(calls) : calls[c].barycenter_weights = InitialWeights
        /\ pc = "done" => result[1].barycenter_weights = InitialWeights

\* C6: the weights passed to every solve and the weights returned are the
\* ones fixed at initialisation (uniform 1/barycenter_size when none are
\* supplied); only the features are replaced, once per round.
C6_WeightsFixed ==
    /\ []C6_Fixed
    /\ [][barycenter_features' # barycenter_features =>
             pc \in {"init", "update"}]_vars
    /\ [](pc = "loop" => Len(calls) = idx * NumIndividuals)

C6_Witness ==
    /\ pc = "done"
    /\ nits_barycenter >= 2
    /\ barycenter_size >= 2
    /\ init_barycenter_weights = None
    /\ result[1].barycenter_weights = [b \in 1..barycenter_size |-> <<1, barycenter_size>>]
    /\ result[1].barycenter_features # calls[1].barycenter_features

C9_Seen ==
    /\ ~callback_barycenter => cb_log = <<>>
    /\ callback_barycenter =>
          /\ pc = "loop" => Len(cb_log) = idx
          /\ pc = "done" => Len(cb_log) = nits_barycenter
          /\ \A k \in 1..Len(cb_log) :
                LET e == cb_log[k]
                IN  /\ e.idx = k - 1
                    /\ e.solves = k * NumIndividuals
                    /\ e.plans # None
                    /\ Len(e.plans[1]) = NumIndividuals
                    /\ \A j \in 1..NumIndividuals :
                          e.plans[1][j] = ProducedPlan(k - 1, j - 1)
                    /\ Len(e.losses_each_bar_step) = k
                    /\ e.losses_each_bar_step[k] = e.losses
                    /\ e.barycenter_features =
                          UpdateBarycenterFeatures(
                              [j \in 1..NumIndividuals |-> e.plans[1][j].pi],
                              features_list, barycenter_size)

\* C9: a registered callback is invoked exactly once per round, after the
\* round's plans are computed, its losses appended and the features replaced,
\* and before any solve of the next round; with no callback nothing is
\* invoked, and the invocation changes nothing that fit returns.
C9_CallbackOncePerRound ==
    /\ []C9_Seen
    /\ [][pc = "callback" =>
             UNCHANGED <<barycenter_weights, barycenter_features, plans,
                         losses_each_bar_step, sparsity_mask>>]_vars

C9_Witness ==
    /\ pc = "done"
    /\ callback_barycenter
    /\ nits_barycenter = MaxRounds
    /\ NumIndividuals >= 2
    /\ Len(cb_log) = MaxRounds

(***************************************************************************)
(* The solvers, on problems with one source and one target point: every    *)
(* tensor is a single number, every sum over a dimension is that number.   *)
(*                                                                         *)
(* Numbers are the values above, held in a floating point format of small  *)
(* range: a result larger than MaxFloat in magnitude overflows to Inf, a   *)
(* nonzero result smaller than 1/MaxFloat underflows to 0.  The inputs are *)
(* chosen so that every power and exponential the solvers take is a        *)
(* rational: costs are multiples of ln 2 (exp(-c ln 2) = 2^(-c)),          *)
(* solver_dc runs with eps = 0, eps_base = 1 and rho in {0, inf},          *)
(* solver_mm with eps = 0 and px = py.                                     *)
(***************************************************************************)
Fl(x) ==
    Once1(LAMBDA a :
            IF ~IsFinite(a) THEN a
            ELSE IF Abs(a[1]) > MaxFloat * a[2] THEN <<Sgn(a[1]), 0>>
            ELSE IF a[1] # 0 /\ Abs(a[1]) * MaxFloat < a[2] THEN <<0, 1>>
            ELSE a,
          x)

FAdd(x, y) == Fl(RAdd(x, y))
FSub(x, y) == Fl(RSub(x, y))
FMul(x, y) == Fl(RMul(x, y))
FDiv(x, y) == Fl(RDiv(x, y))

\* tensor.abs()
FAbs(x) == Once1(LAMBDA a : IF IsNaN(a) THEN NaN ELSE <<Abs(a[1]), a[2]>>, x)

\* x < y: false when either side is NaN
FLt(x, y) ==
    Once2(LAMBDA a, b :
            /\ ~IsNaN(a) /\ ~IsNaN(b) /\ a # b
            /\ IF IsInf(a) THEN a[1] < 0
               ELSE IF IsInf(b) THEN b[1] > 0
               ELSE a[1] * b[2] < b[1] * a[2],
          x, y)

\* Python's max(a, b): b when b > a, else a
PyMax(x, y) == Once2(LAMBDA a, b : IF FLt(a, b) THEN b ELSE a, x, y)

RECURSIVE Exp2(_)
\* exp(c * ln 2) for an integer c
Exp2(c) ==
    IF c = 0 THEN <<1, 1>>
    ELSE IF c > 0 THEN FMul(<<2, 1>>, Exp2(c - 1))
    ELSE FDiv(Exp2(c + 1), <<2, 1>>)

\* exp(-cost / s) for a cost that is a multiple of s * ln 2, given in units of ln 2
ExpNeg(cost, s) == Exp2((RDiv(RNeg(cost), s))[1])

\* tau = 1 if rho is infinite else rho / (rho + eps)
Tau(rho, eps) == IF IsInf(rho) THEN <<1, 1>> ELSE FDiv(rho, FAdd(rho, eps))

\* x ** (-tau) for tau in {0, 1}
PowNeg(x, tau) == IF tau = <<1, 1>> THEN FDiv(<<1, 1>>, x) ELSE <<1, 1>>

\* A plausible slip: the test made on the second iteration of every period.
IsCheckpoint_shifted(k, eval_freq) == (k + 1) % eval_freq = 0

\* idx % eval_freq == 0
IsCheckpoint(k, eval_freq) == k % eval_freq = 0

\* A plausible slip: only NaN looked for.
RowMassDiverged_nanonly(m1) == IsNaN(m1)

\* m1.isnan().any() or m1.isinf().any()
RowMassDiverged(m1) == IsNaN(m1) \/ IsInf(m1)

Zero == <<0, 1>>
One  == <<1, 1>>
Half == <<1, 2>>

Tols == {<<1, 8>>, Half}

ScalingArgs ==
    [solver : {"scaling"}, niters : 0..MaxIters, tol : Tols,
     eval_freq : 1..MaxEvalFreq,
     rho_x : {Zero, One, PInf}, rho_y : {Zero, One, PInf}, eps : {One},
     cost : {Zero, One}, log_px : {<<-1, 1>>, Zero}, log_py : {Zero},
     px : {One}, py : {One}, pxy : {One},
     init_pi : {One}, init_duals : {<<Zero, Zero>>, <<One, Zero>>}]

MmArgs ==
    [solver : {"mm"}, niters : 0..MaxIters, tol : Tols,
     eval_freq : 1..MaxEvalFreq,
     rho_x : {One}, rho_y : {One}, eps : {Zero},
     cost : {Zero, <<2, 1>>}, log_px : {Zero}, log_py : {Zero},
     px : {Half, One}, py : {Half, One}, pxy : {One},
     init_pi : {Zero, Half, One, <<2, 1>>}, init_duals : {<<One, One>>}]

DcArgs ==
    [solver : {"dc"}, niters : 0..MaxIters, tol : Tols,
     eval_freq : 1..MaxEvalFreq,
     rho_x : {Zero, PInf}, rho_y : {Zero, PInf}, eps : {Zero},
     cost : {<<-2, 1>>, Zero, <<2, 1>>}, log_px : {Zero}, log_py : {Zero},
     px : {Half, One}, py : {Half, One}, pxy : {Zero},
     init_pi : {Zero, One, <<2, 1>>}, init_duals : {<<One, One>>}]

\* pxy = px[:, None] * py[None, :], as the callers of solver_dc build it
WithPxy(a) == [a EXCEPT !.pxy = FMul(a.px, a.py)]

SolverArgs ==
    ScalingArgs
      \cup {a \in MmArgs : a.px = a.py}
      \cup {WithPxy(a) : a \in DcArgs}

\* the values of vx, vy, u, v, pi, pi1, pi2, m1 after the statements that
\* precede the loop (vx, vy = init_duals; pi1, pi2, pi = init_pi.sum(1),
\* init_pi.sum(0), init_pi; u, v = init_duals; m1, pi = init_pi.sum(1), init_pi)
Entry(a) ==
    [vx  |-> IF a.solver = "scaling" THEN a.init_duals[1] ELSE Zero,
     vy  |-> IF a.solver = "scaling" THEN a.init_duals[2] ELSE Zero,
     u   |-> IF a.solver = "dc" THEN a.init_duals[1] ELSE Zero,
     v   |-> IF a.solver = "dc" THEN a.init_duals[2] ELSE Zero,
     pi  |-> IF a.solver = "scaling" THEN Zero ELSE a.init_pi,
     pi1 |-> IF a.solver = "mm" THEN a.init_pi ELSE Zero,
     pi2 |-> IF a.solver = "mm" THEN a.init_pi ELSE Zero,
     m1  |-> IF a.solver = "dc" THEN a.init_pi ELSE Zero]

SolverInit ==
    /\ FeatOff
    /\ FitOff
    /\ s_phase = 1
    /\ s_first = None
    /\ s_args \in SolverArgs
    /\ s_pc = "loop"
    /\ s_idx = 0
    /\ s_vx = Entry(s_args).vx
    /\ s_vy = Entry(s_args).vy
    /\ s_u = Entry(s_args).u
    /\ s_v = Entry(s_args).v
    /\ s_pi = Entry(s_args).pi
    /\ s_pi1 = Entry(s_args).pi1
    /\ s_pi2 = Entry(s_args).pi2
    /\ s_m1 = Entry(s_args).m1
    /\ s_ret = None
    /\ s_trace = <<>>

\* how an iteration ends: the loop goes on, breaks, or the call raises
AfterIteration(stop) ==
    /\ s_pc' = (IF stop = "break" THEN "break"
                ELSE IF stop = "raise" THEN "raised" ELSE "loop")
    /\ s_idx' = (IF stop = "none" THEN s_idx + 1 ELSE s_idx)

\* one iteration of the loop of solver_scaling
ScalingIter ==
    /\ s_pc = "loop" /\ s_args.solver = "scaling" /\ s_idx < s_args.niters
    /\ LET a == s_args
           tau_x == Tau(a.rho_x, a.eps)
           tau_y == Tau(a.rho_y, a.eps)
       IN \E vy \in {IF a.rho_y = Zero THEN Zero
                     ELSE FMul(RNeg(tau_y),
                               FSub(FAdd(s_vx, a.log_px), FDiv(a.cost, a.eps)))} :
          \E vx \in {IF a.rho_x = Zero THEN Zero
                     ELSE FMul(RNeg(tau_x),
                               FSub(FAdd(vy, a.log_py), FDiv(a.cost, a.eps)))} :
          \E tested \in {IsCheckpoint(s_idx, a.eval_freq)} :
          \E stop \in {IF tested /\ FLt(PyMax(FAbs(FSub(vx, s_vx)),
                                              FAbs(FSub(vy, s_vy))), a.tol)
                       THEN "break" ELSE "none"} :
             /\ s_vx' = vx
             /\ s_vy' = vy
             /\ s_trace' = Append(s_trace,
                                  [idx |-> s_idx, tested |-> tested, stop |-> stop,
                                   was |-> <<s_vx, s_vy>>, now |-> <<vx, vy>>,
                                   pi |-> Zero])
             /\ AfterIteration(stop)
    /\ UNCHANGED <<s_args, s_u, s_v, s_pi, s_pi1, s_pi2, s_m1, s_ret, s_phase,
                   s_first, featVars, fitVars>>

LoopOver == s_pc = "break" \/ (s_pc = "loop" /\ s_idx >= s_args.niters)

\* pi = pxy * (vx + vy - cost / eps).exp(); return (vx, vy), pi
\* The coupling is kept as the pair <<pxy, vx + vy - cost / eps>>.
ScalingReturn ==
    /\ s_args.solver = "scaling" /\ LoopOver
    /\ s_ret' = Some([duals |-> <<s_vx, s_vy>>,
                      pi |-> <<s_args.pxy,
                               FSub(FAdd(s_vx, s_vy), FDiv(s_args.cost, s_args.eps))>>])
    /\ s_pc' = "done"
    /\ UNCHANGED <<s_args, s_idx, s_vx, s_vy, s_u, s_v, s_pi, s_pi1, s_pi2, s_m1,
                   s_phase, s_first, s_trace, featVars, fitVars>>

\* K of solver_mm: px ** (tau_x + r) * py ** (tau_y + r) * exp(-cost / sum_param);
\* with eps = 0 and px = py the two powers multiply to px.
MmKernel(a) ==
    FMul(a.px, ExpNeg(a.cost, FAdd(FAdd(a.rho_x, a.rho_y), a.eps)))

\* one iteration of the loop of solver_mm; with eps = 0 and pi1 = pi2 the
\* denominator pi1 ** tau_x * pi2 ** tau_y is pi1 and pi ** (tau_x + tau_y) is pi
MmIter ==
    /\ s_pc = "loop" /\ s_args.solver = "mm" /\ s_idx < s_args.niters
    /\ LET a == s_args
       IN \E newpi \in {FMul(FDiv(s_pi, s_pi1), MmKernel(a))} :
          \E tested \in {IsCheckpoint(s_idx, a.eval_freq)} :
          \E stop \in {IF tested /\ FLt(PyMax(FAbs(FSub(newpi, s_pi1)),
                                              FAbs(FSub(newpi, s_pi2))), a.tol)
                       THEN "break" ELSE "none"} :
             /\ s_pi' = newpi
             /\ s_pi1' = newpi
             /\ s_pi2' = newpi
             /\ s_trace' = Append(s_trace,
                                  [idx |-> s_idx, tested |-> tested, stop |-> stop,
                                   was |-> <<s_pi1, s_pi2>>, now |-> <<newpi, newpi>>,
                                   pi |-> newpi])
             /\ AfterIteration(stop)
    /\ UNCHANGED <<s_args, s_vx, s_vy, s_u, s_v, s_m1, s_ret, s_phase, s_first,
                   featVars, fitVars>>

\* return pi
MmReturn ==
    /\ s_args.solver = "mm" /\ LoopOver
    /\ s_ret' = Some([duals |-> <<Zero, Zero>>, pi |-> s_pi])
    /\ s_pc' = "done"
    /\ UNCHANGED <<s_args, s_idx, s_vx, s_vy, s_u, s_v, s_pi, s_pi1, s_pi2, s_m1,
                   s_phase, s_first, s_trace, featVars, fitVars>>

\* one iteration of the loop of solver_dc (eps_base / sum_eps == 1: G = K * pi)
DcIter ==
    /\ s_pc = "loop" /\ s_args.solver = "dc" /\ s_idx < s_args.niters
    /\ LET a == s_args
           sum_eps == FAdd(One, a.eps)
           tau1 == Tau(a.rho_x, sum_eps)
           tau2 == Tau(a.rho_y, sum_eps)
           K == ExpNeg(a.cost, sum_eps)
       IN \E G \in {FMul(K, s_pi)} :
          \E v \in {IF a.rho_y # Zero THEN PowNeg(FMul(G, FMul(s_u, a.px)), tau2)
                    ELSE One} :
          \E u \in {IF a.rho_x # Zero THEN PowNeg(FMul(G, FMul(v, a.py)), tau1)
                    ELSE One} :
          \E newpi \in {FMul(FMul(u, G), v)} :
          \E check \in {IsCheckpoint(s_idx, a.eval_freq)} :
          \E m1 \in {IF check THEN newpi ELSE s_m1} :
          \E stop \in {IF check /\ RowMassDiverged(m1) THEN "raise"
                       ELSE IF check /\ FLt(FAbs(FSub(m1, s_m1)), a.tol)
                            THEN "break" ELSE "none"} :
             /\ s_u' = u
             /\ s_v' = v
             /\ s_pi' = newpi
             /\ s_m1' = m1
             /\ s_trace' = Append(s_trace,
                                  [idx |-> s_idx, tested |-> check /\ stop # "raise",
                                   stop |-> stop,
                                   was |-> <<s_m1, s_m1>>, now |-> <<m1, m1>>,
                                   pi |-> newpi])
             /\ AfterIteration(stop)
    /\ UNCHANGED <<s_args, s_vx, s_vy, s_pi1, s_pi2, s_ret, s_phase, s_first,
                   featVars, fitVars>>

\* pi = pi * pxy; return (u, v), pi
DcReturn ==
    /\ s_args.solver = "dc" /\ LoopOver
    /\ s_ret' = Some([duals |-> <<s_u, s_v>>, pi |-> FMul(s_pi, s_args.pxy)])
    /\ s_pc' = "done"
    /\ UNCHANGED <<s_args, s_idx, s_vx, s_vy, s_u, s_v, s_pi, s_pi1, s_pi2, s_m1,
                   s_phase, s_first, s_trace, featVars, fitVars>>

Converged == Len(s_trace) > 0 /\ s_trace[Len(s_trace)].stop = "break"

\* The caller runs the solver again from its own converged output, niters = 1.
Rerun ==
    /\ s_pc = "done" /\ s_phase = 1 /\ Converged
    /\ s_phase' = 2
    /\ s_first' = s_ret
    /\ \E a \in {[s_args EXCEPT !.niters = 1,
                                  !.init_duals = s_ret[1].duals,
                                  !.init_pi = s_ret[1].pi]} :
          /\ s_args' = a
          /\ s_vx' = Entry(a).vx
          /\ s_vy' = Entry(a).vy
          /\ s_u' = Entry(a).u
          /\ s_v' = Entry(a).v
          /\ s_pi' = Entry(a).pi
          /\ s_pi1' = Entry(a).pi1
          /\ s_pi2' = Entry(a).pi2
          /\ s_m1' = Entry(a).m1
    /\ s_pc' = "loop"
    /\ s_idx' = 0
    /\ s_ret' = None
    /\ s_trace' = <<>>
    /\ UNCHANGED <<featVars, fitVars>>

NextSolver ==
    \/ ScalingIter
    \/ ScalingReturn
    \/ MmIter
    \/ MmReturn
    \/ DcIter
    \/ DcReturn
    \/ Rerun

SpecSolver == SolverInit /\ [][NextSolver]_vars

(***************************************************************************)
(* Properties of the solvers.                                              *)
(***************************************************************************)
Returned == s_pc = "done"
Raised   == s_pc = "raised"

\* the largest of the two measured changes of a trace entry
MeasuredChange(e) ==
    PyMax(FAbs(FSub(e.now[1], e.was[1])), FAbs(FSub(e.now[2], e.was[2])))

\* C3: solver_dc never hands back a diverged coupling: for niters >= 1 and any
\* eval_freq, a call in which some executed iteration computed a coupling with
\* a NaN or infinite row sum raises instead of returning, and the coupling of
\* a call that returns has a finite row mass before the rescaling by pxy.
C3_NeverReturnsDiverged ==
    (s_args.solver = "dc" /\ s_args.niters >= 1 /\ Returned) =>
        /\ \A k \in 1..Len(s_trace) : IsFinite(s_trace[k].pi)
        /\ IsFinite(s_pi)

\* C3, as the code has it: solver_dc looks at the row mass only at the
\* iterations idx with idx % eval_freq = 0.  A NaN or infinite row mass there
\* raises at once, and nothing else raises; a call that returns had a finite
\* row mass at every such iteration, and with eval_freq = 1 the coupling it
\* returns has a finite row mass before the rescaling by pxy.
C3_RaisesAtCheckpoint ==
    (s_args.solver = "dc" /\ s_args.niters >= 1) =>
        /\ \A k \in 1..Len(s_trace) :
              LET e == s_trace[k]
              IN  e.stop = "raise" <=>
                     /\ (k - 1) % s_args.eval_freq = 0
                     /\ ~IsFinite(e.pi)
        /\ Raised <=> (Len(s_trace) > 0 /\ s_trace[Len(s_trace)].stop = "raise")
        /\ (Returned /\ s_args.eval_freq = 1) => IsFinite(s_pi)

C3_Witness ==
    /\ Raised
    /\ s_args.solver = "dc"
    /\ s_args.eval_freq = 2
    /\ Len(s_trace) = 3
    /\ IsFinite(s_trace[1].pi)
    /\ ~IsFinite(s_trace[2].pi)
    /\ s_trace[2].stop = "none"

\* C8: run again from its own converged output with niters = 1, a solver
\* returns a coupling within tol of the converged one (solver_mm and solver_dc;
\* the coupling of solver_scaling is compared through its exponent, equal
\* exponents giving equal couplings).
C8_Idempotent ==
    (Returned /\ s_phase = 2) =>
        IF s_args.solver = "scaling"
        THEN s_ret[1].pi = s_first[1].pi
               \/ FLt(FAbs(FSub(s_ret[1].pi[2], s_first[1].pi[2])), s_args.tol)
        ELSE FLt(FAbs(FSub(s_ret[1].pi, s_first[1].pi)), s_args.tol)

\* C10: a solver runs iterations 0, 1, ... and never more than niters of them;
\* the convergence test is made only at indices idx with idx % eval_freq = 0;
\* the loop is left early only there, with the measured change below tol (or,
\* in solver_dc, by raising), and otherwise the whole budget is used.
C10_BudgetAndCheckpoints ==
    /\ Len(s_trace) <= s_args.niters
    /\ s_idx <= s_args.niters
    /\ \A k \in 1..Len(s_trace) :
          LET e == s_trace[k]
          IN  /\ e.idx = k - 1
              /\ e.tested => (k - 1) % s_args.eval_freq = 0
              /\ e.stop # "none" =>
                    /\ k = Len(s_trace)
                    /\ (k - 1) % s_args.eval_freq = 0
              /\ e.stop = "break" =>
                    /\ e.tested
                    /\ FLt(MeasuredChange(e), s_args.tol)
              /\ e.stop = "raise" => s_args.solver = "dc"
    /\ (Returned \/ s_pc = "break") =>
          \/ Len(s_trace) = s_args.niters
          \/ Converged
    /\ Raised => Len(s_trace) > 0 /\ s_trace[Len(s_trace)].stop = "raise"

C10_Witness ==
    /\ Returned
    /\ s_phase = 1
    /\ s_args.eval_freq = MaxEvalFreq
    /\ Converged
    /\ Len(s_trace) >= 2
    /\ Len(s_trace) < s_args.niters
    /\ \E k \in 1..Len(s_trace) : ~s_trace[k].tested

====
